---- MODULE Spec2Model ----
(***************************************************************************)
(* The wallet ledger of apps/payment: UserWallet and WalletTransaction     *)
(* rows (models.py), the WalletService operations (services.py) and the    *)
(* Stripe webhook handler (views.py).  Amounts are integer cents.          *)
(***************************************************************************)
EXTENDS Integers, Sequences, FiniteSets, TLC

VARIABLES
    wallets,    \* committed UserWallet rows, one per user
    txns,       \* committed WalletTransaction rows; a row's id is its index
    last,       \* the call that returned last: operation, arguments, result
    cap,        \* the number of rows the log is cut at in this run
    pc,         \* per worker: position inside a running escrow_deposit call
    req,        \* per worker: the argument, or the call, it runs
    mem,        \* per worker: the UserWallet object the call holds in memory
    pend,       \* per worker: rows it holds in memory, written but not committed
    lock,       \* per wallet: the worker holding the row's lock, or NoWorker
    events      \* Stripe events sent to the webhook and not yet handled

vars == <<wallets, txns, last, cap, pc, req, mem, pend, lock, events>>

----------------------------------------------------------------------------
\* The rows a run may add to the transaction log
MaxTxns == 2

\* The fixed part of the Stripe fee, $0.30, in cents
StripeFeeFixed == 30

Users == {"u1"}
Workers == {"w1", "w2"}
NoWorker == "none"

\* Amounts a caller asks for besides the boundary amounts of the wallet
DepositAmounts == {5000}
BaseAmounts == {3000}

\* The balances a wallet starts with: a new wallet's 0.00, or a balance set
\* on the row through the admin form
InitialBalances == {0, 10000}

----------------------------------------------------------------------------
\* models.py

\* DecimalField(decimal_places=2) on save: the value n/d cents is quantized to
\* whole cents with the decimal context's ROUND_HALF_EVEN.
Quantize(n, d) ==
    LET q == n \div d
        r == n % d
    IN  IF 2 * r < d THEN q
        ELSE IF 2 * r > d THEN q + 1
        ELSE IF q % 2 = 0 THEN q ELSE q + 1

\* UserWallet(): every balance and counter defaults to 0.00
NewWallet ==
    [available_balance |-> 0, escrow_balance |-> 0, total_deposited |-> 0,
     total_withdrawn |-> 0, total_shipping_paid |-> 0]

total_balance(w) == w.available_balance + w.escrow_balance

\* can_withdraw measuring against the total balance, escrow included
can_withdraw_Total(w, amount) == amount <= total_balance(w)

can_withdraw(w, amount) == amount <= w.available_balance

\* can_place_in_escrow with a strict comparison
can_place_in_escrow_Strict(w, amount) == amount < w.available_balance

can_place_in_escrow(w, amount) == amount <= w.available_balance

\* move_to_escrow raises ValueError when the check fails; Raises_move_to_escrow
\* is that case, move_to_escrow the wallet it saves otherwise.
Raises_move_to_escrow(w, amount) == ~can_place_in_escrow(w, amount)

move_to_escrow(w, amount) ==
    [w EXCEPT !.available_balance = @ - amount,
              !.escrow_balance = @ + amount]

Raises_release_from_escrow(w, amount) == amount > w.escrow_balance

\* release_from_escrow never crediting the available balance
release_from_escrow_NoCredit(w, amount, to_available) ==
    [w EXCEPT !.escrow_balance = @ - amount]

release_from_escrow(w, amount, to_available) ==
    [w EXCEPT !.escrow_balance = @ - amount,
              !.available_balance = IF to_available THEN @ + amount ELSE @]

net_amount(t) == t.amount - t.platform_fee - t.stripe_fee

\* An optional column: <<>> is NULL, <<v>> holds v
Null == <<>>
Some(v) == <<v>>

\* WalletTransaction.objects.create(...): the columns the ledger reads
NewTransaction(user, type, amount, platform_fee, stripe_fee, balance_before) ==
    [wallet |-> user, transaction_type |-> type, amount |-> amount,
     status |-> "pending", platform_fee |-> platform_fee,
     stripe_fee |-> stripe_fee, balance_before |-> Some(balance_before),
     balance_after |-> Null, stripe_payment_intent_id |-> Null,
     completed_at |-> FALSE]

----------------------------------------------------------------------------
\* services.py

\* The Stripe fee without its fixed $0.30
stripe_fee_of_NoFixed(amount) == Quantize(amount * 29, 1000)

\* create_deposit_intent: 2.9% + $0.30 Stripe fee, 1% platform fee, as stored
\* in the max_digits=8, decimal_places=2 columns.
stripe_fee_of(amount) == Quantize(amount * 29 + StripeFeeFixed * 1000, 1000)

\* No platform fee taken
platform_fee_of_None(amount) == 0

platform_fee_of(amount) == Quantize(amount, 100)

\* The transaction ids a caller passes: those of the rows and one of no row
Ids == 1..(Len(txns) + 1)
Exists(id) == id \in 1..Len(txns)

\* A returned call: the operation, its user, amount and transaction id
\* arguments (the id of the created row for a call that creates one),
\* release_escrow's to_available, whether it returned success / True, and
\* the wallet rows as they were when it was made
NoCall ==
    [op |-> "none", user |-> "none", amount |-> 0, tx |-> 0,
     to_available |-> FALSE, ok |-> FALSE, before |-> <<>>]
Call(op, user, amount, tx, ok) ==
    [op |-> op, user |-> user, amount |-> amount, tx |-> tx,
     to_available |-> FALSE, ok |-> ok, before |-> wallets]

Idle == UNCHANGED <<cap, events, pc, req, mem, pend, lock>>

\* The amounts tried against a balance: the fixed ones, the balance itself
\* and one cent above it
AmountsFor(balance) ==
    {a \in BaseAmounts \cup {balance, balance + 1} : a > 0}

\* BankAccount rows a user may hold, and the bank_account_id a caller passes
BankTables ==
    {{}} \cup
    {{[id |-> "b1", is_default |-> TRUE, is_active |-> TRUE, is_verified |-> v]} :
        v \in BOOLEAN}
BankIds == {Null, Some("b1")}

\* create_withdrawal's lookup: the rows the query returns (empty: not found)
FindBankAccount(accounts, bank_account_id) ==
    IF bank_account_id # Null
    THEN {b \in accounts : Some(b.id) = bank_account_id /\ b.is_active}
    ELSE {b \in accounts : b.is_default /\ b.is_active}

\* The gateway's error leaving the row in pending
IntentSaved_ErrorIgnored(created, id, gateway_ok) ==
    IF gateway_ok
    THEN [created EXCEPT !.stripe_payment_intent_id = Some(id),
                         !.status = "processing"]
    ELSE created

\* The row create_deposit_intent saves once Stripe has answered: processing
\* with the PaymentIntent's id, or failed on a StripeError
IntentSaved(created, id, gateway_ok) ==
    IF gateway_ok
    THEN [created EXCEPT !.stripe_payment_intent_id = Some(id),
                         !.status = "processing"]
    ELSE [created EXCEPT !.status = "failed"]

create_deposit_intent(user, amount, gateway_ok) ==
    /\ Len(txns) < cap
    /\ LET wallet == wallets[user]
           created == NewTransaction(user, "deposit", amount,
                          platform_fee_of(amount), stripe_fee_of(amount),
                          wallet.available_balance)
           saved == IntentSaved(created, Len(txns) + 1, gateway_ok)
       IN  /\ txns' = Append(txns, saved)
           /\ last' = Call("create_deposit_intent", user, amount, Len(txns) + 1, gateway_ok)
    /\ UNCHANGED wallets
    /\ Idle

\* The guard of complete_deposit / complete_withdrawal: the row exists with
\* the type asked for and is in status processing
\* The guard without its status check
Completable_AnyStatus(transaction_id, type) ==
    /\ Exists(transaction_id)
    /\ txns[transaction_id].transaction_type = type

Completable(transaction_id, type) ==
    /\ Exists(transaction_id)
    /\ txns[transaction_id].transaction_type = type
    /\ txns[transaction_id].status = "processing"

\* The completion leaving balance_after unset
CompletedRow_NoSnapshot(row, wallet) ==
    [row EXCEPT !.status = "completed", !.completed_at = TRUE]

\* The completion writing the new balance over balance_before as well
CompletedRow_BeforeOverwritten(row, wallet) ==
    [row EXCEPT !.status = "completed",
                !.balance_before = Some(wallet.available_balance),
                !.balance_after = Some(wallet.available_balance),
                !.completed_at = TRUE]

\* status = 'completed', balance_after = wallet.available_balance,
\* completed_at = now: the completion every operation writes on its row
CompletedRow(row, wallet) ==
    [row EXCEPT !.status = "completed",
                !.balance_after = Some(wallet.available_balance),
                !.completed_at = TRUE]

\* complete_deposit crediting the gross amount, fees not taken off
DepositCredited_Gross(wallet, wallet_transaction) ==
    [wallet EXCEPT !.available_balance = @ + wallet_transaction.amount,
                   !.total_deposited = @ + wallet_transaction.amount]

\* The wallet complete_deposit saves
DepositCredited(wallet, wallet_transaction) ==
    [wallet EXCEPT !.available_balance = @ + net_amount(wallet_transaction),
                   !.total_deposited = @ + wallet_transaction.amount]

complete_deposit_effect(transaction_id) ==
    IF Completable(transaction_id, "deposit")
    THEN LET wallet_transaction == txns[transaction_id]
             user == wallet_transaction.wallet
             wallet == DepositCredited(wallets[user], wallet_transaction)
         IN  /\ wallets' = [wallets EXCEPT ![user] = wallet]
             /\ txns' = [txns EXCEPT ![transaction_id] = CompletedRow(@, wallet)]
    ELSE UNCHANGED <<wallets, txns>>

complete_deposit(transaction_id) ==
    /\ complete_deposit_effect(transaction_id)
    /\ last' = Call("complete_deposit", "none", 0, transaction_id,
                    Completable(transaction_id, "deposit"))
    /\ Idle

\* The body shared by escrow_deposit, release_escrow and shipping_payment once
\* the check has passed: create the pending row with the balance_before
\* snapshot, save the changed wallet, complete the row.
Logged(op, user, type, amount, to_available, changed) ==
    LET created == NewTransaction(user, type, amount, 0, 0,
                                  wallets[user].available_balance)
    IN  /\ Len(txns) < cap
        /\ wallets' = [wallets EXCEPT ![user] = changed]
        /\ txns' = Append(txns, CompletedRow(created, changed))
        /\ last' = [Call(op, user, amount, Len(txns) + 1, TRUE)
                        EXCEPT !.to_available = to_available]

Refused(op, user, amount, to_available) ==
    /\ UNCHANGED <<wallets, txns>>
    /\ last' = [Call(op, user, amount, 0, FALSE) EXCEPT !.to_available = to_available]

escrow_deposit(user, amount) ==
    LET wallet == wallets[user]
    IN  /\ IF ~can_place_in_escrow(wallet, amount) \/ Raises_move_to_escrow(wallet, amount)
           THEN Refused("escrow_deposit", user, amount, FALSE)
           ELSE Logged("escrow_deposit", user, "escrow_deposit", amount, FALSE,
                       move_to_escrow(wallet, amount))
        /\ Idle

\* release_escrow logging every release as escrow_release
ReleaseType_AlwaysRelease(to_available) == "escrow_release"

\* The type release_escrow logs the release with
ReleaseType(to_available) ==
    IF to_available THEN "escrow_release" ELSE "escrow_refund"

release_escrow(user, amount, to_available) ==
    LET wallet == wallets[user]
        transaction_type == ReleaseType(to_available)
    IN  /\ IF amount > wallet.escrow_balance \/ Raises_release_from_escrow(wallet, amount)
           THEN Refused("release_escrow", user, amount, to_available)
           ELSE Logged("release_escrow", user, transaction_type, amount, to_available,
                       release_from_escrow(wallet, amount, to_available))
        /\ Idle

\* shipping_payment debiting the balance without counting the payment
ShippingPaid_NoCounter(wallet, amount) ==
    [wallet EXCEPT !.available_balance = @ - amount]

\* The wallet shipping_payment saves
ShippingPaid(wallet, amount) ==
    [wallet EXCEPT !.available_balance = @ - amount,
                   !.total_shipping_paid = @ + amount]

shipping_payment(user, amount) ==
    LET wallet == wallets[user]
    IN  /\ IF ~can_withdraw(wallet, amount)
           THEN Refused("shipping_payment", user, amount, FALSE)
           ELSE Logged("shipping_payment", user, "shipping_payment", amount, FALSE,
                       ShippingPaid(wallet, amount))
        /\ Idle

\* create_withdrawal leaving the row as it was created, in pending
WithdrawalSaved_Pending(created) == created

\* The row create_withdrawal saves: marked as processing, to wait for the
\* transfer's completion
WithdrawalSaved(created) == [created EXCEPT !.status = "processing"]

create_withdrawal(user, amount, accounts, bank_account_id) ==
    LET wallet == wallets[user]
        created == NewTransaction(user, "withdrawal", amount, 0, 0,
                                  wallet.available_balance)
    IN  /\ IF \/ ~can_withdraw(wallet, amount)
              \/ FindBankAccount(accounts, bank_account_id) = {}
           THEN Refused("create_withdrawal", user, amount, FALSE)
           ELSE /\ Len(txns) < cap
                /\ txns' = Append(txns, WithdrawalSaved(created))
                /\ last' = Call("create_withdrawal", user, amount, Len(txns) + 1, TRUE)
                /\ UNCHANGED wallets
        /\ Idle

\* complete_withdrawal debiting the balance without counting the withdrawal
WithdrawalDebited_NoCounter(wallet, wallet_transaction) ==
    [wallet EXCEPT !.available_balance = @ - wallet_transaction.amount]

\* The wallet complete_withdrawal saves
WithdrawalDebited(wallet, wallet_transaction) ==
    [wallet EXCEPT !.available_balance = @ - wallet_transaction.amount,
                   !.total_withdrawn = @ + wallet_transaction.amount]

complete_withdrawal(transaction_id) ==
    /\ IF Completable(transaction_id, "withdrawal")
       THEN LET wallet_transaction == txns[transaction_id]
                user == wallet_transaction.wallet
                wallet == WithdrawalDebited(wallets[user], wallet_transaction)
            IN  /\ wallets' = [wallets EXCEPT ![user] = wallet]
                /\ txns' = [txns EXCEPT ![transaction_id] = CompletedRow(@, wallet)]
       ELSE UNCHANGED <<wallets, txns>>
    /\ last' = Call("complete_withdrawal", "none", 0, transaction_id,
                    Completable(transaction_id, "withdrawal"))
    /\ Idle

\* refund_transaction leaving the original row's status as it found it
RefundedStatus_Keep(original) == original.status

\* The status refund_transaction leaves on the original row
RefundedStatus(original) == "refunded"

refund_transaction(transaction_id) ==
    /\ IF ~Exists(transaction_id)
       THEN /\ UNCHANGED <<wallets, txns>>
            /\ last' = Call("refund_transaction", "none", 0, transaction_id, FALSE)
       ELSE LET original_transaction == txns[transaction_id]
                user == original_transaction.wallet
                wallet == wallets[user]
                created == NewTransaction(user, "refund", original_transaction.amount,
                                          0, 0, wallet.available_balance)
                credited == [wallet EXCEPT
                                !.available_balance = @ + original_transaction.amount]
            IN  /\ Len(txns) < cap
                /\ wallets' = [wallets EXCEPT ![user] = credited]
                /\ txns' = Append([txns EXCEPT ![transaction_id].status =
                                       RefundedStatus(original_transaction)],
                                  CompletedRow(created, credited))
                /\ last' = Call("refund_transaction", user,
                                original_transaction.amount, transaction_id, TRUE)
    /\ Idle

----------------------------------------------------------------------------
\* views.py

EventTypes == {"payment_intent.succeeded", "payment_intent.payment_failed",
               "payment_intent.created"}

\* The transaction ids Stripe's events carry: create_deposit_intent puts the
\* id of its deposit row in the PaymentIntent's metadata; 0 is no id.
EventIds == {0} \cup {id \in 1..Len(txns) : txns[id].transaction_type = "deposit"}

\* The payment_failed branch leaving the row's status as it found it
FailedStatus_Keep(row) == row.status

\* The status the payment_failed branch saves on the row it finds
FailedStatus(row) == "failed"

\* What the handler does with an event whose signature it has verified
handle_event(type, transaction_id) ==
    IF type = "payment_intent.succeeded" /\ transaction_id # 0
    THEN complete_deposit_effect(transaction_id)
    ELSE IF /\ type = "payment_intent.payment_failed"
            /\ transaction_id # 0
            /\ Exists(transaction_id)
    THEN /\ txns' = [txns EXCEPT ![transaction_id].status =
                             FailedStatus(txns[transaction_id])]
         /\ UNCHANGED wallets
    ELSE UNCHANGED <<wallets, txns>>

stripe_webhook(signature_ok, type, transaction_id) ==
    /\ IF ~signature_ok
       THEN /\ UNCHANGED <<wallets, txns>>
            /\ last' = Call(type, "none", 0, transaction_id, FALSE)
       ELSE /\ last' = Call(type, "none", 0, transaction_id, TRUE)
            /\ handle_event(type, transaction_id)
    /\ Idle

----------------------------------------------------------------------------
\* The ledger driven one call at a time

Init ==
    /\ \E b \in InitialBalances :
          wallets = [u \in Users |-> [NewWallet EXCEPT !.available_balance = b]]
    /\ txns = <<>>
    /\ last = NoCall
    /\ cap = MaxTxns
    /\ pc = [w \in Workers |-> "idle"]
    /\ req = [w \in Workers |-> 0]
    /\ mem = [w \in Workers |-> NewWallet]
    /\ pend = [w \in Workers |-> <<>>]
    /\ lock = [u \in Users |-> NoWorker]
    /\ events = {}

Next ==
    \/ \E u \in Users, a \in DepositAmounts, g \in BOOLEAN :
          create_deposit_intent(u, a, g)
    \/ \E id \in Ids : complete_deposit(id)
    \/ \E u \in Users : \E a \in AmountsFor(wallets[u].available_balance) :
          escrow_deposit(u, a)
    \/ \E u \in Users : \E a \in AmountsFor(wallets[u].escrow_balance),
          to \in BOOLEAN : release_escrow(u, a, to)
    \/ \E u \in Users : \E a \in AmountsFor(wallets[u].available_balance) :
          shipping_payment(u, a)
    \/ \E u \in Users : \E a \in AmountsFor(wallets[u].available_balance),
          accounts \in BankTables, b \in BankIds :
          create_withdrawal(u, a, accounts, b)
    \/ \E id \in Ids : complete_withdrawal(id)
    \/ \E id \in Ids : refund_transaction(id)
    \/ \E sig \in BOOLEAN, type \in EventTypes, id \in EventIds :
          stripe_webhook(sig, type, id)

Spec == Init /\ [][Next]_vars

----------------------------------------------------------------------------
\* Deposits and their refunds alone, with room for one more row

InitRefund ==
    /\ \E b \in InitialBalances :
          wallets = [u \in Users |-> [NewWallet EXCEPT !.available_balance = b]]
    /\ txns = <<>>
    /\ last = NoCall
    /\ cap = MaxTxns + 1
    /\ pc = [w \in Workers |-> "idle"]
    /\ req = [w \in Workers |-> 0]
    /\ mem = [w \in Workers |-> NewWallet]
    /\ pend = [w \in Workers |-> <<>>]
    /\ lock = [u \in Users |-> NoWorker]
    /\ events = {}

NextRefund ==
    \/ \E u \in Users, a \in DepositAmounts, g \in BOOLEAN :
          create_deposit_intent(u, a, g)
    \/ \E id \in Ids : complete_deposit(id)
    \/ \E id \in Ids : refund_transaction(id)

SpecRefund == InitRefund /\ [][NextRefund]_vars

----------------------------------------------------------------------------
\* Two escrow_deposit calls running at once, each inside its own
\* transaction.atomic block on a READ COMMITTED database: a SELECT sees the
\* committed rows, an UPDATE of the wallet row waits for the row's lock, and
\* what a call wrote becomes visible when its block commits.

RaceBalances == {10000}
RaceAmounts == {4000, 6000}
RaceUser == CHOOSE u \in Users : TRUE

\* get_or_create_wallet: a plain SELECT, no select_for_update
race_read(w, amount) ==
    /\ pc[w] = "idle"
    /\ req' = [req EXCEPT ![w] = amount]
    /\ mem' = [mem EXCEPT ![w] = wallets[RaceUser]]
    /\ pc' = [pc EXCEPT ![w] = "read"]
    /\ UNCHANGED <<wallets, txns, last, cap, events, pend, lock>>

race_check(w) ==
    /\ pc[w] = "read"
    /\ IF ~can_place_in_escrow(mem[w], req[w])
       THEN /\ pc' = [pc EXCEPT ![w] = "error"]
            /\ last' = Call("escrow_deposit", RaceUser, req[w], 0, FALSE)
       ELSE /\ pc' = [pc EXCEPT ![w] = "checked"]
            /\ UNCHANGED last
    /\ UNCHANGED <<wallets, txns, cap, events, req, mem, pend, lock>>

race_create(w) ==
    /\ pc[w] = "checked"
    /\ pend' = [pend EXCEPT ![w] =
                  <<NewTransaction(RaceUser, "escrow_deposit", req[w], 0, 0,
                                   mem[w].available_balance)>>]
    /\ pc' = [pc EXCEPT ![w] = "created"]
    /\ UNCHANGED <<wallets, txns, last, cap, events, req, mem, lock>>

\* wallet.move_to_escrow(amount): the check on the object in memory, then
\* save(), an UPDATE of every column of the wallet row.  A ValueError is
\* caught inside the atomic block, which then commits the pending row.
race_move(w) ==
    /\ pc[w] = "created"
    /\ IF Raises_move_to_escrow(mem[w], req[w])
       THEN /\ pc' = [pc EXCEPT ![w] = "error"]
            /\ txns' = txns \o pend[w]
            /\ pend' = [pend EXCEPT ![w] = <<>>]
            /\ last' = Call("escrow_deposit", RaceUser, req[w], 0, FALSE)
            /\ UNCHANGED <<mem, lock>>
       ELSE /\ lock[RaceUser] = NoWorker
            /\ lock' = [lock EXCEPT ![RaceUser] = w]
            /\ mem' = [mem EXCEPT ![w] = move_to_escrow(@, req[w])]
            /\ pc' = [pc EXCEPT ![w] = "saved"]
            /\ UNCHANGED <<txns, pend, last>>
    /\ UNCHANGED <<wallets, cap, events, req>>

race_complete(w) ==
    /\ pc[w] = "saved"
    /\ pend' = [pend EXCEPT ![w] = <<CompletedRow(@[1], mem[w])>>]
    /\ pc' = [pc EXCEPT ![w] = "completed"]
    /\ UNCHANGED <<wallets, txns, last, cap, events, req, mem, lock>>

\* The atomic block exits: the wallet row and the transaction row commit
race_commit(w) ==
    /\ pc[w] = "completed"
    /\ wallets' = [wallets EXCEPT ![RaceUser] = mem[w]]
    /\ txns' = txns \o pend[w]
    /\ pend' = [pend EXCEPT ![w] = <<>>]
    /\ lock' = [lock EXCEPT ![RaceUser] = NoWorker]
    /\ pc' = [pc EXCEPT ![w] = "ok"]
    /\ last' = Call("escrow_deposit", RaceUser, req[w], Len(txns) + 1, TRUE)
    /\ UNCHANGED <<cap, events, req, mem>>

InitRace ==
    /\ \E b \in RaceBalances :
          wallets = [u \in Users |-> [NewWallet EXCEPT !.available_balance = b]]
    /\ txns = <<>>
    /\ last = NoCall
    /\ cap = MaxTxns
    /\ pc = [w \in Workers |-> "idle"]
    /\ req = [w \in Workers |-> 0]
    /\ mem = [w \in Workers |-> NewWallet]
    /\ pend = [w \in Workers |-> <<>>]
    /\ lock = [u \in Users |-> NoWorker]
    /\ events = {}

NextRace ==
    \/ \E w \in Workers, a \in RaceAmounts : race_read(w, a)
    \/ \E w \in Workers : race_check(w)
    \/ \E w \in Workers : race_create(w)
    \/ \E w \in Workers : race_move(w)
    \/ \E w \in Workers : race_complete(w)
    \/ \E w \in Workers : race_commit(w)

SpecRace == InitRace /\ [][NextRace]_vars

----------------------------------------------------------------------------
\* Two of complete_deposit, complete_withdrawal and shipping_payment running
\* at once on one wallet, each inside its own transaction.atomic block on the
\* READ COMMITTED database.  Here req[w] is the call worker w runs, the
\* operation with its transaction id or amount.

\* The log the calls start from: two deposits of 50.00 and a withdrawal of
\* 30.00, each left in processing by its create call on the wallet below
ConcurrentWallets ==
    [u \in Users |->
        [NewWallet EXCEPT !.available_balance = CHOOSE b \in RaceBalances : TRUE]]

ConcurrentLog ==
    LET balance == ConcurrentWallets[RaceUser].available_balance
        deposit == NewTransaction(RaceUser, "deposit", 5000, platform_fee_of(5000),
                                  stripe_fee_of(5000), balance)
        withdrawal == NewTransaction(RaceUser, "withdrawal", 3000, 0, 0, balance)
    IN  << [deposit EXCEPT !.stripe_payment_intent_id = Some(1),
                           !.status = "processing"],
           [deposit EXCEPT !.stripe_payment_intent_id = Some(2),
                           !.status = "processing"],
           [withdrawal EXCEPT !.status = "processing"] >>

\* A call: the operation, its transaction id or amount, and its user
\* (complete_deposit and complete_withdrawal take none)
ConcurrentCalls ==
    {[op |-> "complete_deposit", arg |-> id, user |-> "none"] : id \in {1, 2}} \cup
    {[op |-> "complete_withdrawal", arg |-> 3, user |-> "none"],
     [op |-> "shipping_payment", arg |-> 3000, user |-> RaceUser]}

TypeCompleted(op) ==
    IF op = "complete_deposit" THEN "deposit" ELSE "withdrawal"

\* wallet_transaction.wallet always giving the first user's wallet
WalletOf_First(wallet_transaction) == RaceUser

\* wallet = wallet_transaction.wallet: the wallet the row belongs to
WalletOf(wallet_transaction) == wallet_transaction.wallet

\* select_for_update() taking no row lock
RowLocked_Never(w, transaction_id) == FALSE

\* select_for_update(): the transaction row is locked by another worker's
\* open block, from that worker's SELECT ... FOR UPDATE to its commit
RowLocked(w, transaction_id) ==
    \E v \in Workers \ {w} :
        /\ pc[v] \in {"locked", "fetched", "credited"}
        /\ req[v].arg = transaction_id

\* WalletTransaction.objects.select_for_update().get(id, transaction_type):
\* waits for the row's lock, then reads the committed row; the status guard
\* follows.  Returning False ends the block and gives the lock back.
completion_select(w, call) ==
    /\ pc[w] = "idle"
    /\ call.op \in {"complete_deposit", "complete_withdrawal"}
    /\ ~RowLocked(w, call.arg)
    /\ req' = [req EXCEPT ![w] = call]
    /\ pc' = [pc EXCEPT ![w] =
                IF Completable(call.arg, TypeCompleted(call.op))
                THEN "locked" ELSE "false"]
    /\ UNCHANGED <<wallets, txns, last, cap, events, mem, pend, lock>>

\* wallet = wallet_transaction.wallet: the related row is fetched by a plain
\* SELECT, without a lock
completion_fetch(w) ==
    /\ pc[w] = "locked"
    /\ mem' = [mem EXCEPT ![w] = wallets[WalletOf(txns[req[w].arg])]]
    /\ pc' = [pc EXCEPT ![w] = "fetched"]
    /\ UNCHANGED <<wallets, txns, last, cap, events, req, pend, lock>>

\* The balances are changed on the object in memory; wallet.save() is an
\* UPDATE of every column of the wallet row, which waits for the row's lock;
\* wallet_transaction.save() updates the row locked above.
completion_save(w) ==
    /\ pc[w] = "fetched"
    /\ lock[WalletOf(txns[req[w].arg])] = NoWorker
    /\ lock' = [lock EXCEPT ![WalletOf(txns[req[w].arg])] = w]
    /\ LET wallet_transaction == txns[req[w].arg]
           wallet == IF req[w].op = "complete_deposit"
                     THEN DepositCredited(mem[w], wallet_transaction)
                     ELSE WithdrawalDebited(mem[w], wallet_transaction)
       IN  /\ mem' = [mem EXCEPT ![w] = wallet]
           /\ pend' = [pend EXCEPT ![w] = <<CompletedRow(wallet_transaction, wallet)>>]
    /\ pc' = [pc EXCEPT ![w] = "credited"]
    /\ UNCHANGED <<wallets, txns, last, cap, events, req>>

\* The atomic block exits: both rows commit, the locks are given back, the
\* call returns True
completion_commit(w) ==
    /\ pc[w] = "credited"
    /\ wallets' = [wallets EXCEPT ![WalletOf(txns[req[w].arg])] = mem[w]]
    /\ txns' = [txns EXCEPT ![req[w].arg] = pend[w][1]]
    /\ pend' = [pend EXCEPT ![w] = <<>>]
    /\ lock' = [lock EXCEPT ![WalletOf(txns[req[w].arg])] = NoWorker]
    /\ pc' = [pc EXCEPT ![w] = "true"]
    /\ UNCHANGED <<last, cap, events, req, mem>>

\* shipping_payment: get_or_create_wallet reads the wallet with a plain
\* SELECT, can_withdraw is checked on the object in memory, and the pending
\* row is inserted with the balance_before snapshot
shipping_read(w, call) ==
    /\ pc[w] = "idle"
    /\ call.op = "shipping_payment"
    /\ req' = [req EXCEPT ![w] = call]
    /\ mem' = [mem EXCEPT ![w] = wallets[call.user]]
    /\ IF ~can_withdraw(wallets[call.user], call.arg)
       THEN /\ pc' = [pc EXCEPT ![w] = "error"]
            /\ UNCHANGED pend
       ELSE /\ pc' = [pc EXCEPT ![w] = "created"]
            /\ pend' = [pend EXCEPT ![w] =
                          <<NewTransaction(call.user, "shipping_payment", call.arg,
                                0, 0, wallets[call.user].available_balance)>>]
    /\ UNCHANGED <<wallets, txns, last, cap, events, lock>>

\* wallet.save() of the debited object, then the row is completed
shipping_save(w) ==
    /\ pc[w] = "created"
    /\ lock[req[w].user] = NoWorker
    /\ lock' = [lock EXCEPT ![req[w].user] = w]
    /\ LET wallet == ShippingPaid(mem[w], req[w].arg)
       IN  /\ mem' = [mem EXCEPT ![w] = wallet]
           /\ pend' = [pend EXCEPT ![w] = <<CompletedRow(@[1], wallet)>>]
    /\ pc' = [pc EXCEPT ![w] = "paid"]
    /\ UNCHANGED <<wallets, txns, last, cap, events, req>>

shipping_commit(w) ==
    /\ pc[w] = "paid"
    /\ wallets' = [wallets EXCEPT ![req[w].user] = mem[w]]
    /\ txns' = txns \o pend[w]
    /\ pend' = [pend EXCEPT ![w] = <<>>]
    /\ lock' = [lock EXCEPT ![req[w].user] = NoWorker]
    /\ pc' = [pc EXCEPT ![w] = "ok"]
    /\ UNCHANGED <<last, cap, events, req, mem>>

InitConcurrent ==
    /\ wallets = ConcurrentWallets
    /\ txns = ConcurrentLog
    /\ last = NoCall
    /\ cap = MaxTxns
    /\ pc = [w \in Workers |-> "idle"]
    /\ req = [w \in Workers |-> [op |-> "none", arg |-> 0, user |-> "none"]]
    /\ mem = [w \in Workers |-> NewWallet]
    /\ pend = [w \in Workers |-> <<>>]
    /\ lock = [u \in Users |-> NoWorker]
    /\ events = {}

NextConcurrent ==
    \/ \E w \in Workers, call \in ConcurrentCalls : completion_select(w, call)
    \/ \E w \in Workers : completion_fetch(w)
    \/ \E w \in Workers : completion_save(w)
    \/ \E w \in Workers : completion_commit(w)
    \/ \E w \in Workers, call \in ConcurrentCalls : shipping_read(w, call)
    \/ \E w \in Workers : shipping_save(w)
    \/ \E w \in Workers : shipping_commit(w)

SpecConcurrent == InitConcurrent /\ [][NextConcurrent]_vars

----------------------------------------------------------------------------
\* The service called directly, without the serializers in front of it:
\* escrow_deposit, release_escrow and shipping_payment take any Decimal.

DirectAmounts == {0 - 3000, 0, 3000}

InitDirect ==
    /\ \E b \in InitialBalances :
          wallets = [u \in Users |-> [NewWallet EXCEPT !.available_balance = b]]
    /\ txns = <<>>
    /\ last = NoCall
    /\ cap = MaxTxns
    /\ pc = [w \in Workers |-> "idle"]
    /\ req = [w \in Workers |-> 0]
    /\ mem = [w \in Workers |-> NewWallet]
    /\ pend = [w \in Workers |-> <<>>]
    /\ lock = [u \in Users |-> NoWorker]
    /\ events = {}

NextDirect ==
    \/ \E u \in Users, a \in DirectAmounts : escrow_deposit(u, a)
    \/ \E u \in Users, a \in DirectAmounts, to \in BOOLEAN : release_escrow(u, a, to)
    \/ \E u \in Users, a \in DirectAmounts : shipping_payment(u, a)

SpecDirect == InitDirect /\ [][NextDirect]_vars

----------------------------------------------------------------------------
\* create_deposit_intent step by step, with Stripe's events on their way to
\* the webhook.  The call runs outside any transaction.atomic block: each
\* write commits at once.  Here req[w] is the id of the row the call created
\* and pend[w] the WalletTransaction object it holds in memory.

\* WalletTransaction.objects.create(..., status='pending', ...)
intent_create(w, user, amount) ==
    /\ pc[w] \in {"idle", "ok", "error"}
    /\ Len(txns) < cap
    /\ LET created == NewTransaction(user, "deposit", amount,
                          platform_fee_of(amount), stripe_fee_of(amount),
                          wallets[user].available_balance)
       IN  /\ txns' = Append(txns, created)
           /\ pend' = [pend EXCEPT ![w] = <<created>>]
    /\ req' = [req EXCEPT ![w] = Len(txns) + 1]
    /\ pc' = [pc EXCEPT ![w] = "pending"]
    /\ UNCHANGED <<wallets, last, cap, mem, lock, events>>

\* stripe.PaymentIntent.create(..., confirm=True, metadata={transaction_id}):
\* Stripe confirms the payment and sends payment_intent.succeeded, or raises
\* a StripeError, with or without a payment_intent.payment_failed event
intent_charge(w, gateway_ok, notified) ==
    /\ pc[w] = "pending"
    /\ pc' = [pc EXCEPT ![w] = IF gateway_ok THEN "accepted" ELSE "refused"]
    /\ events' =
          IF gateway_ok
          THEN events \cup {[type |-> "payment_intent.succeeded", tx |-> req[w]]}
          ELSE IF notified
          THEN events \cup {[type |-> "payment_intent.payment_failed", tx |-> req[w]]}
          ELSE events
    /\ UNCHANGED <<wallets, txns, last, cap, req, mem, pend, lock>>

\* transaction_record.save(): an UPDATE of every column of the row from the
\* object in memory, status processing with the PaymentIntent's id, or failed
intent_save(w) ==
    /\ pc[w] \in {"accepted", "refused"}
    /\ txns' = [txns EXCEPT ![req[w]] =
                   IntentSaved(pend[w][1], req[w], pc[w] = "accepted")]
    /\ pend' = [pend EXCEPT ![w] = <<>>]
    /\ pc' = [pc EXCEPT ![w] = IF pc[w] = "accepted" THEN "ok" ELSE "error"]
    /\ UNCHANGED <<wallets, last, cap, req, mem, lock, events>>

\* Stripe delivers an event; the handler verifies it, handles it and answers
\* 200, after which Stripe does not send it again
webhook_deliver(event) ==
    /\ event \in events
    /\ handle_event(event.type, event.tx)
    /\ events' = events \ {event}
    /\ UNCHANGED <<last, cap, pc, req, mem, pend, lock>>

InitIntent ==
    /\ \E b \in InitialBalances :
          wallets = [u \in Users |-> [NewWallet EXCEPT !.available_balance = b]]
    /\ txns = <<>>
    /\ last = NoCall
    /\ cap = MaxTxns
    /\ pc = [w \in Workers |-> "idle"]
    /\ req = [w \in Workers |-> 0]
    /\ mem = [w \in Workers |-> NewWallet]
    /\ pend = [w \in Workers |-> <<>>]
    /\ lock = [u \in Users |-> NoWorker]
    /\ events = {}

NextIntent ==
    \/ \E w \in Workers, u \in Users, a \in DepositAmounts : intent_create(w, u, a)
    \/ \E w \in Workers, g \in BOOLEAN, n \in BOOLEAN : intent_charge(w, g, n)
    \/ \E w \in Workers : intent_save(w)
    \/ \E event \in events : webhook_deliver(event)

SpecIntent == InitIntent /\ [][NextIntent]_vars

----------------------------------------------------------------------------
\* Two users, each with a wallet and transactions of their own.  The workers
\* run complete_deposit, complete_withdrawal and shipping_payment step by
\* step as above, each call for either user; the other operations run whole,
\* between the workers' steps, for either user.

TwoUsers == {"u1", "u2"}

\* Both wallets hold 100.00 available and 30.00 in escrow
UsersWallets ==
    [u \in TwoUsers |->
        [NewWallet EXCEPT !.available_balance = CHOOSE b \in RaceBalances : TRUE,
                          !.escrow_balance = CHOOSE a \in BaseAmounts : TRUE]]

\* The log the calls start from: a deposit of 50.00 of each user and a
\* withdrawal of 30.00 of the second, each left in processing by its create
\* call
UsersLog ==
    LET deposit(u) ==
            [NewTransaction(u, "deposit", 5000, platform_fee_of(5000),
                            stripe_fee_of(5000), UsersWallets[u].available_balance)
                EXCEPT !.status = "processing"]
        withdrawal(u) ==
            [NewTransaction(u, "withdrawal", 3000, 0, 0,
                            UsersWallets[u].available_balance)
                EXCEPT !.status = "processing"]
    IN  << [deposit("u1") EXCEPT !.stripe_payment_intent_id = Some(1)],
           [deposit("u2") EXCEPT !.stripe_payment_intent_id = Some(2)],
           withdrawal("u2") >>

UsersCalls ==
    {[op |-> "complete_deposit", arg |-> id, user |-> "none"] : id \in {1, 2}} \cup
    {[op |-> "complete_withdrawal", arg |-> 3, user |-> "none"]} \cup
    {[op |-> "shipping_payment", arg |-> 3000, user |-> u] : u \in TwoUsers}

\* No worker's open block holds the lock of the user's wallet row
Unlocked(user) == lock[user] = NoWorker

InitUsers ==
    /\ wallets = UsersWallets
    /\ txns = UsersLog
    /\ last = NoCall
    /\ cap = Len(UsersLog) + 1
    /\ pc = [w \in Workers |-> "idle"]
    /\ req = [w \in Workers |-> [op |-> "none", arg |-> 0, user |-> "none"]]
    /\ mem = [w \in Workers |-> NewWallet]
    /\ pend = [w \in Workers |-> <<>>]
    /\ lock = [u \in TwoUsers |-> NoWorker]
    /\ events = {}

NextUsers ==
    \/ \E w \in Workers, call \in UsersCalls : completion_select(w, call)
    \/ \E w \in Workers : completion_fetch(w)
    \/ \E w \in Workers : completion_save(w)
    \/ \E w \in Workers : completion_commit(w)
    \/ \E w \in Workers, call \in UsersCalls : shipping_read(w, call)
    \/ \E w \in Workers : shipping_save(w)
    \/ \E w \in Workers : shipping_commit(w)
    \/ \E u \in TwoUsers, a \in BaseAmounts :
          Unlocked(u) /\ escrow_deposit(u, a)
    \/ \E u \in TwoUsers, a \in BaseAmounts, to \in BOOLEAN :
          Unlocked(u) /\ release_escrow(u, a, to)
    \/ \E u \in TwoUsers, a \in DepositAmounts :
          create_deposit_intent(u, a, TRUE)
    \/ \E u \in TwoUsers, a \in BaseAmounts, accounts \in BankTables :
          create_withdrawal(u, a, accounts, Null)
    \/ \E id \in 1..Len(UsersLog) :
          Unlocked(txns[id].wallet) /\ refund_transaction(id)

SpecUsers == InitUsers /\ [][NextUsers]_vars

----------------------------------------------------------------------------
\* The claims

Terminal == {"completed", "failed", "cancelled", "refunded"}

Rows == 1..Len(txns)

\* The rows of a log with the given type and status
RowsOf(log, type, status) ==
    {id \in 1..Len(log) : log[id].transaction_type = type /\ log[id].status = status}

\* C1: every wallet has available_balance >= 0 and escrow_balance >= 0 in
\* every state the ledger operations reach.
C1_BalancesNonNegative ==
    \A u \in Users :
        wallets[u].available_balance >= 0 /\ wallets[u].escrow_balance >= 0

\* C2: of two concurrent escrow_deposit calls for 60.00 against an available
\* balance of 100.00, exactly one succeeds and the other fails; the wallet ends
\* at 40.00 available, 60.00 in escrow, with one completed escrow_deposit row.
RaceReturned == \A w \in Workers : pc[w] \in {"ok", "error"}

C2_ExactlyOneEscrowDeposit ==
    (RaceReturned /\ \A w \in Workers : req[w] = 6000) =>
        /\ Cardinality({w \in Workers : pc[w] = "ok"}) = 1
        /\ Cardinality({w \in Workers : pc[w] = "error"}) = 1
        /\ wallets[RaceUser].available_balance = 4000
        /\ wallets[RaceUser].escrow_balance = 6000
        /\ Cardinality(RowsOf(txns, "escrow_deposit", "completed")) = 1

\* C3: complete_deposit on a deposit row in status processing returns True and
\* credits the wallet; on a row in any other status, of another type, or on no
\* row, it returns False and changes nothing - so a second call with the same
\* id, right after a first that returned True, is such a no-op.
C3_CompleteDepositOnce ==
    [][last'.op = "complete_deposit" =>
        /\ IF Completable(last'.tx, "deposit")
           THEN LET row == txns[last'.tx]
                    u == row.wallet
                IN  /\ last'.ok
                    /\ wallets'[u].available_balance =
                           wallets[u].available_balance + net_amount(row)
                    /\ wallets'[u].total_deposited =
                           wallets[u].total_deposited + row.amount
                    /\ txns'[last'.tx].status = "completed"
           ELSE /\ ~last'.ok
                /\ wallets' = wallets
                /\ txns' = txns
        /\ (last.op = "complete_deposit" /\ last.ok /\ last'.tx = last.tx) =>
              (~last'.ok /\ wallets' = wallets /\ txns' = txns)
    ]_vars

\* C3's case: complete_deposit has returned False for a deposit that an
\* earlier call completed and credited.
C3_Witness ==
    /\ last.op = "complete_deposit"
    /\ ~last.ok
    /\ last.tx \in Rows
    /\ txns[last.tx].transaction_type = "deposit"
    /\ txns[last.tx].status = "completed"
    /\ wallets[txns[last.tx].wallet].total_deposited = txns[last.tx].amount

\* The change of available_balance that a row of each type stands for
SignedEffect(row) ==
    CASE row.transaction_type = "deposit" -> net_amount(row)
      [] row.transaction_type \in {"withdrawal", "escrow_deposit", "shipping_payment"}
            -> 0 - row.amount
      [] row.transaction_type \in {"escrow_release", "refund"} -> row.amount
      [] OTHER -> 0

\* C4: every completed row has balance_after - balance_before equal to the
\* signed effect of its type on available_balance.
C4_SnapshotsMatchEffect ==
    \A id \in Rows :
        txns[id].status = "completed" =>
            /\ txns[id].balance_before # Null
            /\ txns[id].balance_after # Null
            /\ txns[id].balance_after[1] - txns[id].balance_before[1]
                   = SignedEffect(txns[id])

\* C5: refund_transaction on an original that is already refunded fails,
\* adds no row and leaves the wallet as it was.
C5_NoSecondRefund ==
    [][(/\ last'.op = "refund_transaction"
        /\ last'.tx \in Rows
        /\ txns[last'.tx].status = "refunded") =>
           (~last'.ok /\ wallets' = wallets /\ txns' = txns)
    ]_vars

\* C6: a row in completed, failed, cancelled or refunded keeps its status
\* under every operation and event, but for completed -> refunded by
\* refund_transaction.
C6_TerminalIsFinal ==
    [][\A id \in Rows :
          txns[id].status \in Terminal =>
              \/ txns'[id].status = txns[id].status
              \/ /\ txns[id].status = "completed"
                 /\ txns'[id].status = "refunded"
                 /\ last'.op = "refund_transaction"
    ]_vars

\* C7: escrow_deposit(amount) followed at once by release_escrow(amount,
\* to_available = True) for the same user leaves the wallet row - balances
\* and lifetime counters - as it was before the deposit.
C7_EscrowRoundTrip ==
    [][(/\ last.op = "escrow_deposit" /\ last.ok
        /\ last'.op = "release_escrow" /\ last'.ok /\ last'.to_available
        /\ last'.user = last.user
        /\ last'.amount = last.amount) =>
           wallets'[last.user] = last.before[last.user]
    ]_vars

\* C7's case: 100.00 / 0.00 went to 70.00 / 30.00 by an escrow deposit, and
\* the release that followed it has returned.
C7_Witness ==
    /\ last.op = "release_escrow" /\ last.ok /\ last.to_available
    /\ last.amount = 3000
    /\ last.tx = 2
    /\ txns[1].transaction_type = "escrow_deposit"
    /\ txns[1].amount = 3000
    /\ txns[1].balance_before = Some(10000)
    /\ last.before[last.user].available_balance = 7000
    /\ last.before[last.user].escrow_balance = 3000
    /\ wallets[last.user].available_balance = 10000
    /\ wallets[last.user].escrow_balance = 0

\* C8: escrow_deposit succeeds exactly when amount <= available_balance; on
\* success the amount moves from available to escrow and one completed
\* escrow_deposit row is added; with the whole available balance it leaves
\* 0.00 available, with one cent more it fails.
C8_EscrowDepositBoundary ==
    [][last'.op = "escrow_deposit" =>
        LET u == last'.user
            a == last'.amount
            w == wallets[u]
        IN  /\ last'.ok <=> a <= w.available_balance
            /\ last'.ok =>
                  /\ wallets'[u].available_balance = w.available_balance - a
                  /\ wallets'[u].escrow_balance = w.escrow_balance + a
                  /\ Len(txns') = Len(txns) + 1
                  /\ SubSeq(txns', 1, Len(txns)) = txns
                  /\ txns'[Len(txns')].transaction_type = "escrow_deposit"
                  /\ txns'[Len(txns')].status = "completed"
                  /\ txns'[Len(txns')].amount = a
            /\ a = w.available_balance =>
                  last'.ok /\ wallets'[u].available_balance = 0
            /\ a = w.available_balance + 1 => ~last'.ok
    ]_vars

\* C8's case: an escrow deposit of the whole available balance has succeeded.
C8_Witness ==
    /\ last.op = "escrow_deposit" /\ last.ok
    /\ last.amount = last.before[last.user].available_balance
    /\ wallets[last.user].available_balance = 0
    /\ wallets[last.user].escrow_balance =
           last.before[last.user].escrow_balance + last.amount
    /\ txns[last.tx].status = "completed"

\* C9: escrow_deposit, shipping_payment and create_withdrawal with an amount
\* above available_balance, and release_escrow with an amount above
\* escrow_balance, return an error, change no wallet and add no row.
C9_RefusedChangesNothing ==
    [][(\/ /\ last'.op \in {"escrow_deposit", "shipping_payment", "create_withdrawal"}
           /\ last'.amount > wallets[last'.user].available_balance
        \/ /\ last'.op = "release_escrow"
           /\ last'.amount > wallets[last'.user].escrow_balance) =>
           (~last'.ok /\ wallets' = wallets /\ txns' = txns)
    ]_vars

\* C9's case: a shipping payment above the available balance of a wallet
\* that holds funds in escrow has been refused.
C9_Witness ==
    /\ last.op = "shipping_payment" /\ ~last.ok
    /\ last.amount > last.before[last.user].available_balance
    /\ last.amount <= total_balance(last.before[last.user])
    /\ wallets = last.before

\* A deposit of 50.00 made on a wallet with 0.00 available, accepted by the
\* gateway, has been completed with nothing in between
C10_Case ==
    /\ last.op = "complete_deposit" /\ last.ok
    /\ txns[last.tx].amount = 5000
    /\ txns[last.tx].balance_before = Some(0)
    /\ last.before[txns[last.tx].wallet].available_balance = 0
    /\ last.before[txns[last.tx].wallet].total_deposited = 0

\* C10 as stated: the deposit of 50.00 leaves 48.35 available and 50.00
\* deposited, the row holding stripe_fee 1.45 and platform_fee 0.50.
C10_AsStated ==
    C10_Case =>
        /\ wallets[txns[last.tx].wallet].available_balance = 4835
        /\ wallets[txns[last.tx].wallet].total_deposited = 5000
        /\ txns[last.tx].stripe_fee = 145
        /\ txns[last.tx].platform_fee = 50

\* C10 amended: the deposit of 50.00 leaves 47.75 available and 50.00
\* deposited, the row holding stripe_fee 1.75 (2.9% + 0.30) and platform_fee
\* 0.50.
C10_DepositOfFifty ==
    C10_Case =>
        /\ wallets[txns[last.tx].wallet].available_balance = 4775
        /\ wallets[txns[last.tx].wallet].total_deposited = 5000
        /\ txns[last.tx].stripe_fee = 175
        /\ txns[last.tx].platform_fee = 50
        /\ txns[last.tx].balance_after = Some(4775)

\* C10's case: that deposit has been completed and credited
C10_Witness ==
    C10_Case /\ wallets[txns[last.tx].wallet].available_balance = 4775

\* C11: complete_deposit on a deposit row in status processing - called
\* directly or by the payment_intent.succeeded event - adds exactly
\* amount - platform_fee - stripe_fee, with the fees stored on the row, to the
\* owner's available_balance and the gross amount to total_deposited, leaves
\* escrow_balance, total_withdrawn and total_shipping_paid as they were, and
\* leaves the row completed with balance_after the new available_balance;
\* no other wallet and no other row changes.
C11_CompleteDepositExact ==
    [][(/\ \/ last'.op = "complete_deposit"
            \/ (last'.op = "payment_intent.succeeded" /\ last'.ok)
        /\ Completable(last'.tx, "deposit")) =>
           LET row == txns[last'.tx]
               u == row.wallet
           IN  /\ wallets'[u].available_balance =
                      wallets[u].available_balance
                          + row.amount - row.platform_fee - row.stripe_fee
               /\ wallets'[u].total_deposited =
                      wallets[u].total_deposited + row.amount
               /\ wallets'[u].escrow_balance = wallets[u].escrow_balance
               /\ wallets'[u].total_withdrawn = wallets[u].total_withdrawn
               /\ wallets'[u].total_shipping_paid = wallets[u].total_shipping_paid
               /\ \A v \in Users \ {u} : wallets'[v] = wallets[v]
               /\ txns'[last'.tx].status = "completed"
               /\ txns'[last'.tx].balance_after =
                      Some(wallets'[u].available_balance)
               /\ txns'[last'.tx].completed_at
               /\ txns'[last'.tx].amount = row.amount
               /\ txns'[last'.tx].platform_fee = row.platform_fee
               /\ txns'[last'.tx].stripe_fee = row.stripe_fee
               /\ Len(txns') = Len(txns)
               /\ \A id \in Rows \ {last'.tx} : txns'[id] = txns[id]
    ]_vars

\* C11's case: a deposit of 50.00 has been completed on a wallet that held
\* 70.00 available and 30.00 in escrow.
C11_Witness ==
    /\ last.op = "complete_deposit" /\ last.ok
    /\ txns[last.tx].amount = 5000
    /\ txns[last.tx].balance_after = Some(11775)
    /\ last.before[txns[last.tx].wallet].available_balance = 7000
    /\ wallets[txns[last.tx].wallet].available_balance = 11775
    /\ wallets[txns[last.tx].wallet].escrow_balance = 3000
    /\ wallets[txns[last.tx].wallet].total_deposited = 5000

\* C12: a successful refund_transaction on an existing original row adds
\* exactly one row, of type refund, with the original's amount and status
\* completed, adds exactly that amount to the available_balance of the
\* original's wallet, leaves escrow_balance and the lifetime counters as they
\* were, and sets the original's status to refunded; no other row and no
\* other column of the original changes.
C12_RefundExact ==
    [][(last'.op = "refund_transaction" /\ last'.ok) =>
           /\ Exists(last'.tx)
           /\ LET original == txns[last'.tx]
                  u == original.wallet
                  new == Len(txns) + 1
              IN  /\ Len(txns') = new
                  /\ txns'[new].transaction_type = "refund"
                  /\ txns'[new].wallet = u
                  /\ txns'[new].amount = original.amount
                  /\ txns'[new].status = "completed"
                  /\ wallets'[u] =
                         [wallets[u] EXCEPT
                             !.available_balance = @ + original.amount]
                  /\ \A v \in Users \ {u} : wallets'[v] = wallets[v]
                  /\ txns'[last'.tx] = [original EXCEPT !.status = "refunded"]
                  /\ \A id \in Rows \ {last'.tx} : txns'[id] = txns[id]
    ]_vars

\* C12's case: a completed deposit of 50.00 has been refunded.
C12_Witness ==
    /\ last.op = "refund_transaction" /\ last.ok
    /\ last.tx = 1
    /\ txns[1].transaction_type = "deposit"
    /\ txns[1].status = "refunded"
    /\ txns[1].completed_at
    /\ Len(txns) = 2
    /\ txns[2].transaction_type = "refund"
    /\ txns[2].amount = 5000
    /\ wallets[txns[1].wallet].available_balance =
           last.before[txns[1].wallet].available_balance + 5000
    /\ wallets[txns[1].wallet].total_deposited = 5000

\* The calls both returned
ConcurrentReturned == \A w \in Workers : pc[w] \in {"true", "false", "ok", "error"}

\* The wallet and the log a call leaves when it runs with no other call
RunAlone(s, call) ==
    CASE call.op \in {"complete_deposit", "complete_withdrawal"} ->
            IF /\ s.log[call.arg].transaction_type = TypeCompleted(call.op)
               /\ s.log[call.arg].status = "processing"
            THEN [wallet |-> IF call.op = "complete_deposit"
                             THEN DepositCredited(s.wallet, s.log[call.arg])
                             ELSE WithdrawalDebited(s.wallet, s.log[call.arg]),
                  log |-> [s.log EXCEPT ![call.arg].status = "completed"]]
            ELSE s
      [] call.op = "shipping_payment" ->
            IF can_withdraw(s.wallet, call.arg)
            THEN [wallet |-> ShippingPaid(s.wallet, call.arg), log |-> s.log]
            ELSE s
      [] OTHER -> s

\* C13: when two calls that change the same wallet run at once - two
\* complete_deposit calls for different deposits, a complete_deposit with a
\* shipping_payment - the balances and lifetime counters they leave are those
\* of running the two calls one after the other in one of the two orders.
C13_Serializable ==
    ConcurrentReturned =>
        \E w \in Workers : \E v \in Workers \ {w} :
            wallets[RaceUser] =
                RunAlone(RunAlone([wallet |-> ConcurrentWallets[RaceUser],
                                   log |-> ConcurrentLog], req[w]), req[v]).wallet

\* C14: when both workers ran complete_deposit, or both complete_withdrawal,
\* for the same transaction in processing, exactly one call returned True and
\* the other False, whatever the interleaving, and the wallet holds the
\* transaction's effect once: available_balance and the lifetime counter
\* changed by one credit, or one debit, and the row is completed.
C14_OneCompletionWins ==
    (/\ ConcurrentReturned
     /\ \A w \in Workers : req[w].op \in {"complete_deposit", "complete_withdrawal"}
     /\ \A w, v \in Workers : req[w] = req[v]) =>
        LET call == req[CHOOSE w \in Workers : TRUE]
            row == ConcurrentLog[call.arg]
            before == ConcurrentWallets[row.wallet]
        IN  /\ Cardinality({w \in Workers : pc[w] = "true"}) = 1
            /\ Cardinality({w \in Workers : pc[w] = "false"}) = 1
            /\ txns[call.arg].status = "completed"
            /\ wallets[row.wallet] =
                   IF call.op = "complete_deposit"
                   THEN [before EXCEPT
                            !.available_balance = @ + net_amount(row),
                            !.total_deposited = @ + row.amount]
                   ELSE [before EXCEPT
                            !.available_balance = @ - row.amount,
                            !.total_withdrawn = @ + row.amount]

\* C14's case: two complete_deposit calls for the same deposit have both
\* returned, the second having waited for the row the first had locked.
C14_Witness ==
    /\ ConcurrentReturned
    /\ \A w \in Workers : req[w] = [op |-> "complete_deposit", arg |-> 1, user |-> "none"]
    /\ \E w \in Workers : pc[w] = "true"
    /\ \E w \in Workers : pc[w] = "false"
    /\ wallets[RaceUser].total_deposited = 5000

C16_WithdrawalIntentFrame ==
    [][/\ (last'.op = "create_withdrawal" /\ last'.ok) =>
              /\ Len(txns') = Len(txns) + 1
              /\ SubSeq(txns', 1, Len(txns)) = txns
              /\ last'.tx = Len(txns')
              /\ txns'[last'.tx].transaction_type = "withdrawal"
              /\ txns'[last'.tx].wallet = last'.user
              /\ txns'[last'.tx].amount = last'.amount
              /\ txns'[last'.tx].status = "processing"
              /\ wallets' = wallets
       /\ \A u \in Users :
              wallets'[u].total_withdrawn # wallets[u].total_withdrawn =>
                  (last'.op = "complete_withdrawal" /\ last'.ok)
    ]_vars

\* C16's case: a withdrawal of the whole available balance has been
\* created and the wallet still holds that balance.
C16_Witness ==
    /\ last.op = "create_withdrawal" /\ last.ok
    /\ last.amount = 10000
    /\ txns[last.tx].transaction_type = "withdrawal"
    /\ txns[last.tx].status = "processing"
    /\ wallets[last.user].available_balance = 10000
    /\ wallets[last.user].total_withdrawn = 0

\* C17: complete_withdrawal on a withdrawal row in status processing takes
\* exactly the amount off available_balance, adds it to total_withdrawn,
\* leaves the row completed with the balance_after snapshot and returns True;
\* on a row in another status, of another type, or on no row, it returns
\* False and changes nothing - so a second call for the same id, right after
\* one that returned True, is a no-op.
C17_CompleteWithdrawalOnce ==
    [][last'.op = "complete_withdrawal" =>
        /\ IF /\ last'.tx \in Rows
              /\ txns[last'.tx].transaction_type = "withdrawal"
              /\ txns[last'.tx].status = "processing"
           THEN LET row == txns[last'.tx]
                    u == row.wallet
                IN  /\ last'.ok
                    /\ wallets'[u] =
                           [wallets[u] EXCEPT
                               !.available_balance = @ - row.amount,
                               !.total_withdrawn = @ + row.amount]
                    /\ \A v \in Users \ {u} : wallets'[v] = wallets[v]
                    /\ txns'[last'.tx] =
                           [row EXCEPT
                               !.status = "completed",
                               !.balance_after = Some(wallets'[u].available_balance),
                               !.completed_at = TRUE]
                    /\ Len(txns') = Len(txns)
                    /\ \A id \in Rows \ {last'.tx} : txns'[id] = txns[id]
           ELSE /\ ~last'.ok
                /\ wallets' = wallets
                /\ txns' = txns
        /\ (last.op = "complete_withdrawal" /\ last.ok /\ last'.tx = last.tx) =>
              (~last'.ok /\ wallets' = wallets /\ txns' = txns)
    ]_vars

\* C17's case: complete_withdrawal has returned False for a withdrawal of
\* 30.00 that the call before it completed and debited.
C17_Witness ==
    /\ last.op = "complete_withdrawal" /\ ~last.ok
    /\ last.tx \in Rows
    /\ txns[last.tx].transaction_type = "withdrawal"
    /\ txns[last.tx].status = "completed"
    /\ txns[last.tx].amount = 3000
    /\ txns[last.tx].balance_after = Some(7000)
    /\ wallets[txns[last.tx].wallet].available_balance = 7000
    /\ wallets[txns[last.tx].wallet].total_withdrawn = 3000
    /\ wallets = last.before

\* C18: create_withdrawal succeeds only if the bank account it selects - the
\* one asked for by id, or the default one - exists and is verified; with an
\* unverified account, or none, it fails and adds no row.
C18_VerifiedDestination ==
    [][\A u \in Users :
          \A a \in AmountsFor(wallets[u].available_balance),
             accounts \in BankTables, b \in BankIds :
              create_withdrawal(u, a, accounts, b) =>
                  IF \E account \in FindBankAccount(accounts, b) : account.is_verified
                  THEN TRUE
                  ELSE ~last'.ok /\ txns' = txns
    ]_vars

\* C19: total_deposited, total_withdrawn and total_shipping_paid of every
\* wallet are non-negative and none of them is smaller after a step than
\* before it, calls running at once included.
C19_CountersMonotonic ==
    [][\A u \in Users :
          /\ wallets'[u].total_deposited >= wallets[u].total_deposited
          /\ wallets'[u].total_withdrawn >= wallets[u].total_withdrawn
          /\ wallets'[u].total_shipping_paid >= wallets[u].total_shipping_paid
          /\ wallets'[u].total_deposited >= 0
          /\ wallets'[u].total_withdrawn >= 0
          /\ wallets'[u].total_shipping_paid >= 0
    ]_vars

\* The change of escrow_balance that a row of each type stands for
EscrowEffect(row) ==
    CASE row.transaction_type = "escrow_deposit" -> row.amount
      [] row.transaction_type \in {"escrow_release", "escrow_refund"}
            -> 0 - row.amount
      [] OTHER -> 0

\* The sums of the effects, on available_balance and on escrow_balance, of
\* the first n rows of a log that belong to a wallet and were completed
RECURSIVE AvailableEffects(_, _, _)
AvailableEffects(log, u, n) ==
    IF n = 0 THEN 0
    ELSE AvailableEffects(log, u, n - 1) +
         (IF log[n].wallet = u /\ log[n].completed_at
          THEN SignedEffect(log[n]) ELSE 0)

RECURSIVE EscrowEffects(_, _, _)
EscrowEffects(log, u, n) ==
    IF n = 0 THEN 0
    ELSE EscrowEffects(log, u, n - 1) +
         (IF log[n].wallet = u /\ log[n].completed_at
          THEN EscrowEffect(log[n]) ELSE 0)

\* C20: available_balance is the wallet's initial balance plus the sum of the
\* effects of its rows that were completed, and escrow_balance is the sum of
\* their escrow effects.  Both hold at the start, where no row was completed
\* and escrow_balance is 0, so they hold in every state exactly when every
\* step changes each balance by as much as it changes the sum.
C20_BalanceMatchesLog ==
    [][\A u \in Users :
          /\ wallets'[u].available_balance - wallets[u].available_balance =
                 AvailableEffects(txns', u, Len(txns'))
                     - AvailableEffects(txns, u, Len(txns))
          /\ wallets'[u].escrow_balance - wallets[u].escrow_balance =
                 EscrowEffects(txns', u, Len(txns'))
                     - EscrowEffects(txns, u, Len(txns))
    ]_vars

\* C21: escrow_deposit, release_escrow and shipping_payment called with an
\* amount of zero or less are refused and change no wallet and no row.
C21_NonPositiveRefused ==
    [][(/\ last'.op \in {"escrow_deposit", "release_escrow", "shipping_payment"}
        /\ last'.amount <= 0) =>
           (~last'.ok /\ wallets' = wallets /\ txns' = txns)
    ]_vars

\* C22: refund_transaction on an original in pending, processing, failed or
\* cancelled status returns an error, credits nothing, adds no row and
\* leaves the original's status as it was; a row becomes refunded only from
\* completed.
C22_RefundOnlyFromCompleted ==
    [][/\ (/\ last'.op = "refund_transaction"
           /\ last'.tx \in Rows
           /\ txns[last'.tx].status \in {"pending", "processing", "failed", "cancelled"}) =>
              (~last'.ok /\ wallets' = wallets /\ txns' = txns)
       /\ \A id \in Rows :
              (txns[id].status # "refunded" /\ txns'[id].status = "refunded") =>
                  txns[id].status = "completed"
    ]_vars

\* C23: release_escrow succeeds exactly when amount <= escrow_balance; on
\* success escrow_balance goes down by exactly the amount, available_balance
\* goes up by the amount when to_available is true and stays when it is
\* false, the lifetime counters stay, and exactly one row is added: completed,
\* of type escrow_release when to_available is true and escrow_refund when
\* it is false.  A refused call changes nothing.
C23_ReleaseEscrowExact ==
    [][last'.op = "release_escrow" =>
        LET u == last'.user
            a == last'.amount
            w == wallets[u]
        IN  /\ last'.ok <=> a <= w.escrow_balance
            /\ last'.ok =>
                  /\ wallets'[u] =
                         [w EXCEPT
                            !.escrow_balance = @ - a,
                            !.available_balance =
                                IF last'.to_available THEN @ + a ELSE @]
                  /\ \A v \in Users \ {u} : wallets'[v] = wallets[v]
                  /\ Len(txns') = Len(txns) + 1
                  /\ SubSeq(txns', 1, Len(txns)) = txns
                  /\ txns'[Len(txns')].wallet = u
                  /\ txns'[Len(txns')].transaction_type =
                         (IF last'.to_available THEN "escrow_release"
                                               ELSE "escrow_refund")
                  /\ txns'[Len(txns')].status = "completed"
                  /\ txns'[Len(txns')].amount = a
            /\ ~last'.ok => (wallets' = wallets /\ txns' = txns)
    ]_vars

\* C23's case: 30.00 held in escrow has been released as a payment, not
\* back to the available balance.
C23_Witness ==
    /\ last.op = "release_escrow" /\ last.ok /\ ~last.to_available
    /\ last.amount = 3000
    /\ last.before[last.user].escrow_balance = 3000
    /\ wallets[last.user].escrow_balance = 0
    /\ wallets[last.user].available_balance =
           last.before[last.user].available_balance
    /\ txns[last.tx].transaction_type = "escrow_refund"
    /\ txns[last.tx].status = "completed"

\* C24: shipping_payment succeeds exactly when amount <= available_balance;
\* on success available_balance goes down and total_shipping_paid up by
\* exactly the amount, escrow_balance and the other counters stay, and exactly
\* one row is added: a completed shipping_payment whose balance_before and
\* balance_after are the available_balance before and after the call.  A
\* refused call changes nothing.
C24_ShippingPaymentExact ==
    [][last'.op = "shipping_payment" =>
        LET u == last'.user
            a == last'.amount
            w == wallets[u]
        IN  /\ last'.ok <=> a <= w.available_balance
            /\ last'.ok =>
                  /\ wallets'[u] =
                         [w EXCEPT !.available_balance = @ - a,
                                   !.total_shipping_paid = @ + a]
                  /\ \A v \in Users \ {u} : wallets'[v] = wallets[v]
                  /\ Len(txns') = Len(txns) + 1
                  /\ SubSeq(txns', 1, Len(txns)) = txns
                  /\ txns'[Len(txns')].wallet = u
                  /\ txns'[Len(txns')].transaction_type = "shipping_payment"
                  /\ txns'[Len(txns')].status = "completed"
                  /\ txns'[Len(txns')].amount = a
                  /\ txns'[Len(txns')].balance_before = Some(w.available_balance)
                  /\ txns'[Len(txns')].balance_after = Some(w.available_balance - a)
            /\ ~last'.ok => (wallets' = wallets /\ txns' = txns)
    ]_vars

\* C24's case: a shipping payment of 30.00 has been made from a wallet that
\* held funds in escrow.
C24_Witness ==
    /\ last.op = "shipping_payment" /\ last.ok
    /\ last.amount = 3000
    /\ last.before[last.user].escrow_balance > 0
    /\ wallets[last.user].escrow_balance = last.before[last.user].escrow_balance
    /\ wallets[last.user].available_balance =
           last.before[last.user].available_balance - 3000
    /\ wallets[last.user].total_shipping_paid = 3000
    /\ txns[last.tx].transaction_type = "shipping_payment"
    /\ txns[last.tx].status = "completed"

\* Nothing is under way for a row: no worker is inside the call that created
\* it and no event for it is on its way
Settled(id) ==
    /\ \A w \in Workers :
          ~(req[w] = id /\ pc[w] \in {"pending", "accepted", "refused"})
    /\ \A event \in events : event.tx # id

\* C25: a deposit the gateway accepted (its row holds the PaymentIntent's
\* id), whose payment_intent.succeeded event has been delivered and handled
\* and whose create_deposit_intent call has returned, is completed and
\* credited, in whichever order the handler and the call ran.  Once a row is
\* settled nothing acts on it again, so a settled row in another status is
\* left there for good.
C25_AcceptedDepositCompleted ==
    \A id \in Rows :
        (Settled(id) /\ txns[id].stripe_payment_intent_id # Null) =>
            /\ txns[id].status = "completed"
            /\ txns[id].completed_at
            /\ wallets[txns[id].wallet].total_deposited >= txns[id].amount

\* C26: the webhook handler leaves every wallet and every row as it was
\* when the event's signature fails verification, when its type is neither
\* payment_intent.succeeded nor payment_intent.payment_failed, or when it
\* carries no transaction id; a verified succeeded event does what
\* complete_deposit does for the id it carries, and a verified
\* payment_failed event sets the status of the row it names to failed and
\* changes nothing else.
C26_WebhookDispatch ==
    [][last'.op \in EventTypes =>
        IF \/ ~last'.ok
           \/ last'.op \notin {"payment_intent.succeeded",
                                "payment_intent.payment_failed"}
           \/ last'.tx = 0
        THEN wallets' = wallets /\ txns' = txns
        ELSE IF last'.op = "payment_intent.succeeded"
        THEN IF /\ last'.tx \in Rows
                /\ txns[last'.tx].transaction_type = "deposit"
                /\ txns[last'.tx].status = "processing"
             THEN LET row == txns[last'.tx]
                      u == row.wallet
                  IN  /\ wallets'[u] =
                             [wallets[u] EXCEPT
                                 !.available_balance = @ + net_amount(row),
                                 !.total_deposited = @ + row.amount]
                      /\ txns'[last'.tx].status = "completed"
                      /\ \A id \in Rows \ {last'.tx} : txns'[id] = txns[id]
             ELSE wallets' = wallets /\ txns' = txns
        ELSE /\ wallets' = wallets
             /\ IF last'.tx \in Rows
                THEN txns' = [txns EXCEPT ![last'.tx].status = "failed"]
                ELSE txns' = txns
    ]_vars

\* C26's case: a verified payment_failed event has marked a deposit that
\* was in processing as failed, the wallet untouched.
C26_Witness ==
    /\ last.op = "payment_intent.payment_failed" /\ last.ok
    /\ last.tx \in Rows
    /\ txns[last.tx].status = "failed"
    /\ txns[last.tx].stripe_payment_intent_id # Null
    /\ ~txns[last.tx].completed_at
    /\ wallets = last.before

\* C27: create_deposit_intent changes no wallet, whether the gateway accepts
\* or not, and adds exactly one row: a deposit of the amount asked for, with
\* balance_before the wallet's available_balance at the call, the 1%
\* platform fee and the 2.9% + 0.30 Stripe fee of the amount, and nothing
\* completed; accepted by the gateway, the row is in processing and holds the
\* PaymentIntent's id.  total_deposited moves only when complete_deposit,
\* called directly or by the succeeded event, returns True.
C27_DepositIntentFrame ==
    [][/\ last'.op = "create_deposit_intent" =>
              LET new == Len(txns) + 1
                  u == last'.user
                  a == last'.amount
              IN  /\ wallets' = wallets
                  /\ Len(txns') = new
                  /\ SubSeq(txns', 1, Len(txns)) = txns
                  /\ last'.tx = new
                  /\ txns'[new].transaction_type = "deposit"
                  /\ txns'[new].wallet = u
                  /\ txns'[new].amount = a
                  /\ txns'[new].balance_before = Some(wallets[u].available_balance)
                  /\ txns'[new].platform_fee = Quantize(a, 100)
                  /\ txns'[new].stripe_fee = Quantize(a * 29 + StripeFeeFixed * 1000, 1000)
                  /\ txns'[new].balance_after = Null
                  /\ ~txns'[new].completed_at
                  /\ last'.ok =>
                        /\ txns'[new].status = "processing"
                        /\ txns'[new].stripe_payment_intent_id # Null
       /\ \A u \in Users :
              wallets'[u].total_deposited # wallets[u].total_deposited =>
                  /\ last'.op \in {"complete_deposit", "payment_intent.succeeded"}
                  /\ last'.ok
    ]_vars

\* C27's case: a deposit of 50.00 has been accepted by the gateway on a
\* wallet holding 70.00 available and 30.00 in escrow, and the wallet is as
\* it was.
C27_Witness ==
    /\ last.op = "create_deposit_intent" /\ last.ok
    /\ txns[last.tx].status = "processing"
    /\ txns[last.tx].balance_before = Some(7000)
    /\ txns[last.tx].stripe_payment_intent_id # Null
    /\ wallets[last.user].available_balance = 7000
    /\ wallets[last.user].escrow_balance = 3000
    /\ wallets[last.user].total_deposited = 0
    /\ wallets = last.before

\* The user a call acts for: shipping_payment's user, or the owner of the
\* row complete_deposit and complete_withdrawal are given
CallUser(call) ==
    IF call.op = "shipping_payment" THEN call.user ELSE UsersLog[call.arg].wallet

\* Nothing of another user than u differs after the step: no wallet, no
\* transaction row, and no row is added for another user
OthersUnchanged(u) ==
    /\ \A v \in TwoUsers \ {u} : wallets'[v] = wallets[v]
    /\ Len(txns') >= Len(txns)
    /\ \A id \in 1..Len(txns) : txns[id].wallet # u => txns'[id] = txns[id]
    /\ \A id \in (Len(txns) + 1)..Len(txns') : txns'[id].wallet = u

\* The wallets and the log two calls for different users leave when the
\* second runs after the first has returned
RunInOrder(first, second) ==
    LET a == RunAlone([wallet |-> UsersWallets[CallUser(first)],
                       log |-> UsersLog], first)
        b == RunAlone([wallet |-> UsersWallets[CallUser(second)],
                       log |-> a.log], second)
    IN  [wallets |-> [u \in TwoUsers |->
                        IF u = CallUser(first) THEN a.wallet ELSE b.wallet],
         log |-> b.log]

\* The state is the one the two calls leave in the given order: the wallets,
\* the status of each row the calls found, and one completed
\* shipping_payment row for each shipping_payment that returned success
StateIs(s) ==
    /\ wallets = s.wallets
    /\ \A id \in 1..Len(UsersLog) :
          /\ txns[id].status = s.log[id].status
          /\ [txns[id] EXCEPT !.status = "processing", !.balance_after = Null,
                              !.completed_at = FALSE] = UsersLog[id]
    /\ \A w \in Workers :
          Cardinality({id \in (Len(UsersLog) + 1)..Len(txns) :
                          txns[id].wallet = CallUser(req[w])}) =
              IF req[w].op = "shipping_payment" /\ pc[w] = "ok" THEN 1 ELSE 0
    /\ \A id \in (Len(UsersLog) + 1)..Len(txns) :
          LET before == UsersWallets[txns[id].wallet].available_balance
          IN  txns[id] =
                  [NewTransaction(txns[id].wallet, "shipping_payment", 3000, 0, 0,
                                  before)
                      EXCEPT !.status = "completed",
                             !.balance_after = Some(before - 3000),
                             !.completed_at = TRUE]

\* C28: a step of a call made for one user's wallet - a ledger operation, or
\* the completion of one of that wallet's transactions - leaves the other
\* user's wallet (balances and lifetime counters) and transactions as they
\* were; and when two calls for different wallets ran at once and both
\* returned, the wallets and the log are those of running the two calls one
\* after the other, in either order.
C28_WalletsIndependent ==
    [][/\ \A w \in Workers :
             pc'[w] # pc[w] => OthersUnchanged(CallUser(req'[w]))
       /\ (pc' = pc /\ last'.user \in TwoUsers) => OthersUnchanged(last'.user)
       /\ (pc' = pc /\ last'.user = "none" /\ last'.tx \in 1..Len(txns)) =>
             OthersUnchanged(txns[last'.tx].wallet)
       /\ (/\ \A w \in Workers : pc'[w] \in {"true", "false", "ok", "error"}
           /\ last' = NoCall
           /\ \A w, v \in Workers : w # v => CallUser(req'[w]) # CallUser(req'[v])) =>
             \A w, v \in Workers : w # v =>
                 StateIs(RunInOrder(req[w], req[v]))']_vars

\* C28's case: a completion and a shipping_payment, or two completions, for
\* the two users' wallets ran at once, both succeeded and each wallet holds
\* its own call's effect.
C28_Witness ==
    /\ ConcurrentReturned
    /\ last = NoCall
    /\ \E w, v \in Workers :
          /\ CallUser(req[w]) = "u1" /\ CallUser(req[v]) = "u2"
          /\ pc[w] = "true" /\ pc[v] = "ok"
    /\ wallets["u1"].total_deposited = 5000
    /\ wallets["u2"].available_balance =
          UsersWallets["u2"].available_balance - 3000
    /\ Len(txns) = Len(UsersLog) + 1

\* The types of the rows an operation creates and completes in one atomic
\* block
SynchronousTypes ==
    {"escrow_deposit", "escrow_release", "escrow_refund", "shipping_payment",
     "refund"}

\* C29: in every committed state no row of type escrow_deposit,
\* escrow_release, escrow_refund, shipping_payment or refund is pending or
\* processing, and every completed row has balance_before and balance_after
\* set.
C29_SynchronousRowsSettled ==
    \A id \in Rows :
        /\ txns[id].transaction_type \in SynchronousTypes =>
              txns[id].status \notin {"pending", "processing"}
        /\ txns[id].status = "completed" =>
              /\ txns[id].balance_before # Null
              /\ txns[id].balance_after # Null

\* C29's case: an escrow_deposit or shipping_payment row was created and
\* completed by its call and then refunded, and the refund's own row is
\* completed with both balances set.
C29_Witness ==
    /\ \E id \in Rows :
          /\ txns[id].transaction_type \in {"escrow_deposit", "shipping_payment"}
          /\ txns[id].status = "refunded"
          /\ txns[id].balance_after # Null
    /\ \E id \in Rows :
          /\ txns[id].transaction_type = "refund"
          /\ txns[id].status = "completed"
          /\ txns[id].balance_before # Null
          /\ txns[id].balance_after # Null

\* C30: no step removes a row from the log, and a row keeps the wallet,
\* type, amount, platform_fee, stripe_fee and balance_before it was created
\* with, whatever updates it later.
C30_AppendOnly ==
    [][/\ Len(txns') >= Len(txns)
       /\ \A id \in Rows :
             /\ txns'[id].wallet = txns[id].wallet
             /\ txns'[id].transaction_type = txns[id].transaction_type
             /\ txns'[id].amount = txns[id].amount
             /\ txns'[id].platform_fee = txns[id].platform_fee
             /\ txns'[id].stripe_fee = txns[id].stripe_fee
             /\ txns'[id].balance_before = txns[id].balance_before]_vars

\* C30's case: a deposit and a withdrawal the wallet's calls created were
\* both updated afterwards, the first by its completion and then by a
\* refund, the second by its completion.
C30_Witness ==
    /\ Len(txns) >= 2
    /\ txns[1].transaction_type = "deposit"
    /\ txns[1].status \in {"completed", "failed"}
    /\ txns[2].transaction_type = "withdrawal"
    /\ txns[2].status = "completed"
    /\ txns[2].balance_after # Null
====
